---- MODULE Spec2Model ----
(***************************************************************************)
(* Model of octis/evaluation_metrics/similarity_metrics.py and utils.py:   *)
(* the embedding loader (KeyedVectorsMixin) and the pairwise topic scorers *)
(* WordEmbeddingsPairwiseSimilarity, WordEmbeddingsCentroidSimilarity,     *)
(* WordEmbeddingsWeightedSumSimilarity and PairwiseJaccardSimilarity.      *)
(*                                                                         *)
(* Numbers.  Embedding vectors are tuples of integers.  Real arithmetic is *)
(* exact: a cosine is kept as the pair (dot, product of squared norms), a  *)
(* sum as the bag of its terms, a centroid as an integer vector over a     *)
(* common denominator, a Jaccard mean as a reduced fraction.  NaN is a     *)
(* value of its own and absorbs every operation, as IEEE arithmetic does.  *)
(* Equal records are equal reals; rounding of float sums is not modelled.  *)
(*                                                                         *)
(* Three specifications share the variables:                               *)
(*   Spec          one score call of a constructed pairwise, centroid or   *)
(*                 Jaccard scorer, over every bounded topic list;          *)
(*   SpecWeighted  one score call of a constructed weighted scorer, over   *)
(*                 every bounded topic-word distribution;                  *)
(*   SpecLife      an instance from before __init__, given any model and   *)
(*                 model_name, through repeated score calls.               *)
(***************************************************************************)
EXTENDS Integers, Sequences, FiniteSets, Bags, TLC

VARIABLES
    kind,          \* class of the scorer instance, "none" before construction
    topk,          \* self.topk
    id2word,       \* self.id2word (weighted scorer only)
    wv,            \* self.wv, the table load_keyedvectors resolved
    ctorExc,       \* exception the constructor raised, "none" otherwise
    catalogCalls,  \* number of gensim.downloader api.load calls made so far
    calls,         \* number of score calls made on the instance
    input,         \* model_output of the last score call
    result,        \* outcome of the last score call: a value or a raise
    trace,         \* per-pair locals of the last score call, in loop order
    source         \* the model and model_name the constructor was given

vars == <<kind, topk, id2word, wv, ctorExc, catalogCalls, calls, input, result, trace, source>>

(***************************************************************************)
(* Bounds of the model.                                                    *)
(***************************************************************************)
MaxTopics == 3     \* topics (or distribution rows) per model_output
MaxWords == 2      \* words per topic
MaxTotalWords == 4 \* words per model_output, over all its topics
MaxWeight == 2     \* largest weight of a distribution entry
MaxDict == 2       \* entries of a dict passed as model
MaxCalls == 2      \* score calls per instance in the lifecycle specification

Words == {"a", "b"}              \* words of topics and of id2word
DictKeys == {"a", "b", "c"}      \* keys of a dict passed as model

\* Python values carry their type; None, and the fields not yet set.
None == [type |-> "NoneType"]
Str(x) == [type |-> "str", s |-> x]
NoTable == [k |-> "unset"]
NoInput == [k |-> "no input"]
NoResult == [k |-> "no result"]

Min(x, y) == IF x <= y THEN x ELSE y
Max(x, y) == IF x >= y THEN x ELSE y
Abs(x) == IF x < 0 THEN -x ELSE x

RECURSIVE GCD(_, _)
GCD(x, y) == IF y = 0 THEN Abs(x) ELSE GCD(y, x % y)

\* All sequences over S of length lo..hi.
SeqsOf(S, lo, hi) == UNION {[1..n -> S] : n \in lo..hi}

RECURSIVE SumSeq(_)
SumSeq(s) == IF s = <<>> THEN 0 ELSE Head(s) + SumSeq(Tail(s))

RECURSIVE GCDSeq(_)
GCDSeq(s) == IF s = <<>> THEN 0 ELSE GCD(Head(s), GCDSeq(Tail(s)))

(***************************************************************************)
(* Python outcomes.                                                        *)
(***************************************************************************)
Raise(e) == [k |-> "raise", exc |-> e]
\* raise Exception('Words in topics are less than topk')
WordsLessThanTopk == "Exception: Words in topics are less than topk"
NaN == [k |-> "nan"]
Inf == [k |-> "inf"]
IsRaise(r) == r.k = "raise"
IsValue(r) == r.k \notin {"raise", "no result"}

\* list[:k]
Take(s, k) ==
    IF k >= 0 THEN SubSeq(s, 1, Min(k, Len(s)))
    ELSE SubSeq(s, 1, Max(Len(s) + k, 0))

\* itertools.combinations(range(n), 2), 1-based, in the order it yields
RECURSIVE CombFrom(_, _, _)
CombFrom(i, j, n) ==
    IF i >= n THEN <<>>
    ELSE IF j > n THEN CombFrom(i + 1, i + 2, n)
    ELSE <<(<<i, j>>)>> \o CombFrom(i, j + 1, n)

combinations(n) == CombFrom(1, 2, n)

(***************************************************************************)
(* numpy vectors and scipy/gensim cosine.                                  *)
(***************************************************************************)
Dot(u, v) == SumSeq([i \in 1..Len(u) |-> u[i] * v[i]])
VecAdd(u, v) == [i \in 1..Len(u) |-> u[i] + v[i]]
VecScale(u, c) == [i \in 1..Len(u) |-> u[i] * c]
zeros(n) == [i \in 1..n |-> 0]

\* A real vector num/den, reduced; den = 0 is numpy's division by zero, whose
\* entries are nan or inf.
NanVec == [k |-> "nanvec"]
VecDiv(num, den) ==
    IF den = 0 THEN NanVec
    ELSE LET g == GCD(GCDSeq(num), den)
         IN [k |-> "vec", num |-> [i \in 1..Len(num) |-> num[i] \div g], den |-> den \div g]

\* uv / sqrt(uu * vv) of two integer vectors: the cosine, kept as the reduced
\* signed square dot*|dot| / (uu*vv).  A zero norm divides 0 by 0: nan.
CosOf(u, v) ==
    LET d == Dot(u, v)
        nn == Dot(u, u) * Dot(v, v)
    IN IF nn = 0 THEN NaN
       ELSE LET g == GCD(d * d, nn)
            IN [k |-> "cos", sq |-> (d * Abs(d)) \div g, nn |-> nn \div g]

\* cosine similarity of two centroids (positive denominators cancel)
CosCentroids(c1, c2) ==
    IF c1.k = "nanvec" \/ c2.k = "nanvec" THEN NaN ELSE CosOf(c1.num, c2.num)

\* 1 - x
OneMinus(x) == IF x.k = "nan" THEN NaN ELSE [k |-> "one_minus", x |-> x]

\* scipy.spatial.distance.cosine(u, v) = 1 - uv / sqrt(uu * vv); it does not
\* raise on nan or zero-norm input, the numpy division only warns
cosine(c1, c2) == OneMinus(CosCentroids(c1, c2))

\* A running float sum: the bag of the terms added so far, or nan.
EmptySum == [k |-> "sum", terms |-> EmptyBag]
SumAdd(s, x) ==
    IF s.k = "nan" \/ x.k = "nan" THEN NaN
    ELSE [k |-> "sum", terms |-> s.terms (+) SetToBag({x})]
\* s / n for n > 0
MeanOf(s, n) == IF s.k = "nan" THEN NaN ELSE [k |-> "mean", terms |-> s.terms, count |-> n]

RECURSIVE SumAll(_)
SumAll(xs) == IF xs = <<>> THEN EmptySum ELSE SumAdd(SumAll(Tail(xs)), Head(xs))

(***************************************************************************)
(* utils.py: KeyedVectorsMixin.                                            *)
(***************************************************************************)
default_model_name == "word2vec-google-news-300"

\* Values a caller may put in a dict passed as model.  type is the Python
\* type, shape what numpy.asarray gives it, numeric whether its dtype is.
NdArray(data) == [type |-> "ndarray", shape |-> <<Len(data)>>, numeric |-> TRUE, data |-> data]
GoodValues == {NdArray(<<1, 0>>), NdArray(<<-1, 1>>)}
BadValues ==
    { NdArray(<<1>>),                                                        \* another length
      [type |-> "ndarray", shape |-> <<1, 2>>, numeric |-> TRUE, data |-> <<1, 0>>],   \* 2-dimensional
      [type |-> "ndarray", shape |-> <<2>>, numeric |-> FALSE, data |-> <<0, 0>>],     \* array of str
      [type |-> "list", shape |-> <<2>>, numeric |-> TRUE, data |-> <<1, 0>>] }         \* plain list
DictValues == GoodValues \cup BadValues

\* A dict, in insertion order: a sequence of <<key, value>> with distinct keys.
IsDict(items) == \A i, j \in 1..Len(items) : i # j => items[i][1] # items[j][1]
Dicts == {d \in SeqsOf(DictKeys \X DictValues, 0, MaxDict) : IsDict(d)}

\* kv.key_to_index = {k: idx for idx, k in enumerate(dic.keys())}
KeyToIndex(items) ==
    [w \in {items[i][1] : i \in 1..Len(items)} |->
        (CHOOSE i \in 1..Len(items) : items[i][1] = w) - 1]

\* np.stack(list(dic.values())): every array must have one shape
StackOk(items) == \A i \in 1..Len(items) : items[i][2].shape = items[1][2].shape

\* _convert_dict_to_keyedvectors(dic): the KeyedVectors built, or the raise
_convert_dict_to_keyedvectors(dic) ==
    IF dic = <<>> THEN Raise("StopIteration")                     \* next(iter(...))
    ELSE LET arr == dic[1][2]
         IN IF arr.type # "ndarray" THEN Raise("AssertionError")
            ELSE IF Len(arr.shape) # 1 THEN Raise("AssertionError")
            ELSE IF ~StackOk(dic) THEN Raise("ValueError")
            ELSE [k |-> "KeyedVectors",
                  vector_size |-> arr.shape[1],
                  key_to_index |-> KeyToIndex(dic),
                  vectors |-> [i \in 1..Len(dic) |-> dic[i][2]]]

\* gensim.downloader.load: the external catalog, by name
CatalogNames == {default_model_name, "glove-small", "no-such-model"}
api_load(name) ==
    IF name = default_model_name
    THEN _convert_dict_to_keyedvectors(<<(<<"a", NdArray(<<1, 0>>)>>), (<<"b", NdArray(<<1, 1>>)>>), (<<"c", NdArray(<<0, 1>>)>>)>>)
    ELSE IF name = "glove-small"
    THEN _convert_dict_to_keyedvectors(<<(<<"b", NdArray(<<0, 1>>)>>), (<<"a", NdArray(<<-1, 1>>)>>)>>)
    ELSE Raise("ValueError")

\* What a caller may pass as model.
KVSource(d) == [type |-> "KeyedVectors", kv |-> _convert_dict_to_keyedvectors(d)]
DictSource(d) == [type |-> "dict", items |-> d]
OtherSource == Str("vectors.bin")

\* load_keyedvectors(model, model_name): [wv, exc, loads], loads counting the
\* api.load calls it made
load_keyedvectors(model, model_name) ==
    IF model.type # "NoneType"
    THEN IF model.type = "KeyedVectors"
         THEN [wv |-> model.kv, exc |-> "none", loads |-> 0]
         ELSE IF model.type = "dict"
         THEN LET kv == _convert_dict_to_keyedvectors(model.items)
              IN IF kv.k = "raise" THEN [wv |-> NoTable, exc |-> kv.exc, loads |-> 0]
                 ELSE [wv |-> kv, exc |-> "none", loads |-> 0]
         ELSE [wv |-> NoTable, exc |-> "ValueError", loads |-> 0]
    ELSE LET kv == api_load(IF model_name.type # "NoneType" THEN model_name.s ELSE default_model_name)
         IN IF kv.k = "raise" THEN [wv |-> NoTable, exc |-> kv.exc, loads |-> 1]
            ELSE [wv |-> kv, exc |-> "none", loads |-> 1]

\* word in self.wv.key_to_index.keys()
InVocab(table, w) == w \in DOMAIN table.key_to_index
\* self.wv[word], for a word of the vocabulary
Vector(table, w) == table.vectors[table.key_to_index[w] + 1].data
\* self.wv.similarity(word1, word2)
similarity(table, w1, w2) == CosOf(Vector(table, w1), Vector(table, w2))

\* np.stack of a str array with float arrays is a str array: no arithmetic
Numeric(table) == \A i \in 1..Len(table.vectors) : table.vectors[i].numeric

(***************************************************************************)
(* similarity_metrics.py: the loop tail the scorers share.                 *)
(***************************************************************************)
\* The pairs a loop over combinations processes up to the first raise, and
\* their values: pv[p] is the record of the p-th pair, whose value is a number
\* or a raise.  FirstRaise is the pair the loop stops at, 0 when it completes.
FirstRaise(pv) ==
    IF \E p \in 1..Len(pv) : pv[p].value.k = "raise"
    THEN CHOOSE p \in 1..Len(pv) :
            /\ pv[p].value.k = "raise"
            /\ \A q \in 1..(p - 1) : pv[q].value.k # "raise"
    ELSE 0

Values(pv) == [p \in 1..Len(pv) |-> pv[p].value]

\* Faulty variant: the comparison off by one.
TooFewWords_OffByOne(k, topics) == k >= Len(topics[1])

\* Lines 85 and 127: self.topk > len(topics[0]), for a non-empty topics
TooFewWords(k, topics) == k > Len(topics[1])

(***************************************************************************)
(* WordEmbeddingsPairwiseSimilarity.score                                  *)
(***************************************************************************)
\* Lines 91-98: one iteration of the loop over topic pairs.
PairwisePair(table, k, list1, list2) ==
    LET l1 == Take(list1, k)
        l2 == Take(list2, k)
        n2 == Len(l2)
        all == [n \in 1..(Len(l1) * n2) |-> <<l1[((n - 1) \div n2) + 1], l2[((n - 1) % n2) + 1]>>]
        Both(p) == InVocab(table, p[1]) /\ InVocab(table, p[2])
        used == SelectSeq(all, Both)
        word_counts == Len(used)
    IN IF word_counts > 0 /\ ~Numeric(table) THEN Raise("TypeError")
       ELSE IF word_counts = 0 THEN Raise("ZeroDivisionError")
       ELSE MeanOf(SumAll([n \in 1..word_counts |-> similarity(table, used[n][1], used[n][2])]),
                   word_counts)

PairwiseScore(table, k, model_output) ==
    IF "topics" \notin DOMAIN model_output THEN [result |-> Raise("KeyError"), trace |-> <<>>]
    ELSE LET topics == model_output.topics
         IN IF Len(topics) = 0 THEN [result |-> Raise("IndexError"), trace |-> <<>>]
            ELSE IF TooFewWords(k, topics)
            THEN [result |-> Raise(WordsLessThanTopk), trace |-> <<>>]
            ELSE LET combos == combinations(Len(topics))
                     pv == [p \in 1..Len(combos) |->
                              [i |-> combos[p][1], j |-> combos[p][2],
                               value |-> PairwisePair(table, k, topics[combos[p][1]], topics[combos[p][2]])]]
                     bad == FirstRaise(pv)
                     count == Len(pv)
                 IN IF bad # 0 THEN [result |-> pv[bad].value, trace |-> SubSeq(pv, 1, bad)]
                    ELSE IF count = 0 THEN [result |-> Raise("ZeroDivisionError"), trace |-> pv]
                    ELSE [result |-> MeanOf(SumAll(Values(pv)), count), trace |-> pv]

(***************************************************************************)
(* WordEmbeddingsCentroidSimilarity.score                                  *)
(***************************************************************************)
RECURSIVE VecSum(_, _)
VecSum(vs, n) == IF vs = <<>> THEN zeros(n) ELSE VecAdd(VecSum(Tail(vs), n), Head(vs))

\* Lines 133-145 for one topic: the in-vocabulary words of its first k
InVocabWords(table, k, list) ==
    LET Known(w) == InVocab(table, w)
    IN SelectSeq(Take(list, k), Known)

\* centroid / count of one topic, count being the words found
Centroid(table, k, list) ==
    LET ws == InVocabWords(table, k, list)
    IN VecDiv(VecSum([n \in 1..Len(ws) |-> Vector(table, ws[n])], table.vector_size), Len(ws))

\* Faulty variant: the second topic's words not cut to the first topk.
CentroidPair_SecondUnsliced(table, k, list1, list2) ==
    OneMinus(cosine(Centroid(table, k, list1), Centroid(table, Len(list2), list2)))

\* Lines 133-146: one iteration of the loop over topic pairs.
CentroidPair(table, k, list1, list2) ==
    IF ~Numeric(table) /\ (InVocabWords(table, k, list1) # <<>> \/ InVocabWords(table, k, list2) # <<>>)
    THEN Raise("TypeError")
    ELSE OneMinus(cosine(Centroid(table, k, list1), Centroid(table, k, list2)))

CentroidScore(table, k, model_output) ==
    IF "topics" \notin DOMAIN model_output THEN [result |-> Raise("KeyError"), trace |-> <<>>]
    ELSE LET topics == model_output.topics
         IN IF Len(topics) = 0 THEN [result |-> Raise("IndexError"), trace |-> <<>>]
            ELSE IF TooFewWords(k, topics)
            THEN [result |-> Raise(WordsLessThanTopk), trace |-> <<>>]
            ELSE LET combos == combinations(Len(topics))
                     pv == [p \in 1..Len(combos) |->
                              [i |-> combos[p][1], j |-> combos[p][2],
                               value |-> CentroidPair(table, k, topics[combos[p][1]], topics[combos[p][2]])]]
                     bad == FirstRaise(pv)
                     count == Len(pv)
                 IN IF bad # 0 THEN [result |-> pv[bad].value, trace |-> SubSeq(pv, 1, bad)]
                    ELSE IF count = 0 THEN [result |-> Raise("ZeroDivisionError"), trace |-> pv]
                    ELSE [result |-> MeanOf(SumAll(Values(pv)), count), trace |-> pv]

(***************************************************************************)
(* WordEmbeddingsWeightedSumSimilarity.score                               *)
(***************************************************************************)
\* Lines 185-190 (and 191-196): the centroid of one distribution row, or the
\* raise of the first id whose lookup or product fails.
WeightedCentroid(table, i2w, row) ==
    LET Missing(n) == (n - 1) \notin DOMAIN i2w \/ ~InVocab(table, i2w[n - 1])
    IN IF \E n \in 1..Len(row) : Missing(n) /\ (Numeric(table) \/ n = 1)
       THEN Raise("KeyError")
       ELSE IF row # <<>> /\ ~Numeric(table) THEN Raise("TypeError")
       ELSE VecDiv(VecSum([n \in 1..Len(row) |-> VecScale(Vector(table, i2w[n - 1]), row[n])],
                          table.vector_size),
                   SumSeq(row))

\* Lines 185-197: one iteration of the loop over row pairs (i, j).
WeightedPair(table, i2w, beta, i, j) ==
    LET centroid1 == WeightedCentroid(table, i2w, beta[i])
        centroid2 == WeightedCentroid(table, i2w, beta[i])
    IN [i |-> i, j |-> j, centroid1 |-> centroid1, centroid2 |-> centroid2,
        value |-> IF centroid1.k = "raise" THEN centroid1
                  ELSE IF centroid2.k = "raise" THEN centroid2
                  ELSE cosine(centroid1, centroid2)]

\* Line 198, wess / count with count still 0.  Without a pair wess is the int
\* 0 and Python raises.  With pairs wess is what scipy returned, summed: a
\* numpy float (0.0 / 0 is nan, a positive rounding residue / 0 is inf, both
\* with a RuntimeWarning only) or, where scipy clips with max(0, ...), the
\* int 0 again: which one depends on the scipy build and on rounding.
WeightedDivide(wess, count, npairs) ==
    IF count # 0 THEN {MeanOf(wess, count)}
    ELSE IF npairs = 0 THEN {Raise("ZeroDivisionError")}
    ELSE {NaN, Inf, Raise("ZeroDivisionError")}

\* The outcomes of score: [results, trace], the call returning any of results.
WeightedScore(table, i2w, model_output) ==
    IF "topic-word-distribution" \notin DOMAIN model_output
    THEN [results |-> {Raise("KeyError")}, trace |-> <<>>]
    ELSE LET beta == model_output["topic-word-distribution"]
             combos == combinations(Len(beta))
             pv == [p \in 1..Len(combos) |-> WeightedPair(table, i2w, beta, combos[p][1], combos[p][2])]
             bad == FirstRaise(pv)
             count == 0
         IN IF bad # 0 THEN [results |-> {pv[bad].value}, trace |-> SubSeq(pv, 1, bad)]
            ELSE [results |-> WeightedDivide(SumAll(Values(pv)), count, Len(pv)), trace |-> pv]

(***************************************************************************)
(* PairwiseJaccardSimilarity.score                                         *)
(***************************************************************************)
\* Exact fractions n/d, d > 0, reduced.
Rat(n, d) == LET g == GCD(n, d) IN [k |-> "rat", n |-> n \div g, d |-> d \div g]
RatAdd(x, y) == Rat(x.n * y.d + y.n * x.d, x.d * y.d)
RatLeq(x, y) == x.n * y.d <= y.n * x.d

RECURSIVE RatSum(_)
RatSum(xs) == IF xs = <<>> THEN Rat(0, 1) ELSE RatAdd(RatSum(Tail(xs)), Head(xs))

SetOf(list) == {list[n] : n \in 1..Len(list)}

\* Faulty variant: the intersection counted over the list, repeated words included.
JaccardPair_ListIntersection(k, list1, list2) ==
    LET l1 == Take(list1, k)
        intersection == Cardinality({n \in 1..Len(l1) : l1[n] \in SetOf(Take(list2, k))})
        union == (Len(l1) + Len(Take(list2, k))) - intersection
    IN [intersection |-> intersection, union |-> union,
        value |-> IF union = 0 THEN Raise("ZeroDivisionError") ELSE Rat(intersection, union)]

\* Lines 246-249: one iteration of the loop over topic pairs.
JaccardPair(k, list1, list2) ==
    LET intersection == Cardinality(SetOf(Take(list1, k)) \cap SetOf(Take(list2, k)))
        union == (Len(Take(list1, k)) + Len(Take(list2, k))) - intersection
    IN [intersection |-> intersection, union |-> union,
        value |-> IF union = 0 THEN Raise("ZeroDivisionError") ELSE Rat(intersection, union)]

JaccardScore(k, model_output) ==
    IF "topics" \notin DOMAIN model_output THEN [result |-> Raise("KeyError"), trace |-> <<>>]
    ELSE LET topics == model_output.topics
             combos == combinations(Len(topics))
             pv == [p \in 1..Len(combos) |->
                      [i |-> combos[p][1], j |-> combos[p][2]]
                      @@ JaccardPair(k, topics[combos[p][1]], topics[combos[p][2]])]
             bad == FirstRaise(pv)
             count == Len(pv)
             sim == RatSum(Values(pv))
         IN IF bad # 0 THEN [result |-> pv[bad].value, trace |-> SubSeq(pv, 1, bad)]
            ELSE IF count = 0 THEN [result |-> Raise("ZeroDivisionError"), trace |-> pv]
            ELSE [result |-> Rat(sim.n, sim.d * count), trace |-> pv]

(***************************************************************************)
(* The scorer instance: construction and score calls.                      *)
(***************************************************************************)
\* The fields an __init__ leaves: load_keyedvectors sets self.wv or raises.
\* PairwiseJaccardSimilarity.__init__ loads nothing.
AfterInit(cls, model, model_name, k, i2w) ==
    LET r == IF cls = "jaccard" THEN [wv |-> NoTable, exc |-> "none", loads |-> 0]
             ELSE load_keyedvectors(model, model_name)
    IN [kind |-> IF r.exc = "none" THEN cls ELSE "failed",
        topk |-> k, id2word |-> i2w, wv |-> r.wv, ctorExc |-> r.exc, catalogCalls |-> r.loads]

TopkRange == (-1)..MaxWords
default_topk == 10

\* id2word maps over ids 0..n-1, injective.
Id2Words ==
    {f \in UNION {[0..(n - 1) -> Words] : n \in 1..MaxWords} :
        /\ \A x, y \in DOMAIN f : x # y => f[x] # f[y]
        /\ f[0] = "b" => DOMAIN f = {0}}

TotalWords(t) == SumSeq([n \in 1..Len(t) |-> Len(t[n])])
TopicLists ==
    {t \in SeqsOf(SeqsOf(Words, 0, MaxWords), 0, MaxTopics) : TotalWords(t) <= MaxTotalWords}
Betas == SeqsOf(SeqsOf(0..MaxWeight, 0, MaxWords), 0, MaxTopics)
TopicsOutput(t) == [topics |-> t]
BetaOutput(b) == [topics |-> <<>>] @@ ("topic-word-distribution" :> b)

\* Embedding dicts the scoring specification constructs its scorers from.
ScoringDicts ==
    { <<(<<"a", NdArray(<<1, 0>>)>>)>>,
      <<(<<"a", NdArray(<<1, 0>>)>>), (<<"b", NdArray(<<1, 1>>)>>)>>,
      <<(<<"b", NdArray(<<-1, 0>>)>>), (<<"a", NdArray(<<1, 0>>)>>), (<<"c", NdArray(<<0, 2>>)>>)>> }

\* __init__ of the four classes, as actions of a not yet constructed instance
Construct(cls, model, model_name, k, i2w) ==
    LET a == AfterInit(cls, model, model_name, k, i2w)
    IN /\ kind = "none"
       /\ kind' = a.kind /\ topk' = a.topk /\ id2word' = a.id2word /\ wv' = a.wv
       /\ ctorExc' = a.ctorExc /\ catalogCalls' = catalogCalls + a.catalogCalls
       /\ source' = [model |-> model, model_name |-> model_name]
       /\ UNCHANGED <<calls, input, result, trace>>

\* Faulty variant: the embedding source resolved again by the score call.
ScorePairwise_Reloading(mo) ==
    /\ kind = "pairwise"
    /\ LET l == load_keyedvectors(source.model, source.model_name)
           r == PairwiseScore(l.wv, topk, mo)
       IN /\ wv' = l.wv /\ catalogCalls' = catalogCalls + l.loads
          /\ result' = r.result /\ trace' = r.trace
    /\ input' = mo /\ calls' = calls + 1
    /\ UNCHANGED <<kind, topk, id2word, ctorExc, source>>

\* score(model_output) of each class: reads self.topk, self.wv, self.id2word
ScorePairwise(mo) ==
    /\ kind = "pairwise"
    /\ LET r == PairwiseScore(wv, topk, mo) IN result' = r.result /\ trace' = r.trace
    /\ input' = mo /\ calls' = calls + 1
    /\ UNCHANGED <<kind, topk, id2word, wv, ctorExc, catalogCalls, source>>

ScoreCentroid(mo) ==
    /\ kind = "centroid"
    /\ LET r == CentroidScore(wv, topk, mo) IN result' = r.result /\ trace' = r.trace
    /\ input' = mo /\ calls' = calls + 1
    /\ UNCHANGED <<kind, topk, id2word, wv, ctorExc, catalogCalls, source>>

ScoreWeighted(mo) ==
    /\ kind = "weighted"
    /\ LET r == WeightedScore(wv, id2word, mo) IN result' \in r.results /\ trace' = r.trace
    /\ input' = mo /\ calls' = calls + 1
    /\ UNCHANGED <<kind, topk, id2word, wv, ctorExc, catalogCalls, source>>

ScoreJaccard(mo) ==
    /\ kind = "jaccard"
    /\ LET r == JaccardScore(topk, mo) IN result' = r.result /\ trace' = r.trace
    /\ input' = mo /\ calls' = calls + 1
    /\ UNCHANGED <<kind, topk, id2word, wv, ctorExc, catalogCalls, source>>

(***************************************************************************)
(* Spec: one score call on a constructed scorer, over all bounded inputs.  *)
(***************************************************************************)
InitAs(a, src) ==
    /\ kind = a.kind /\ topk = a.topk /\ id2word = a.id2word /\ wv = a.wv
    /\ ctorExc = a.ctorExc /\ catalogCalls = a.catalogCalls
    /\ source = src
    /\ calls = 0 /\ input = NoInput /\ result = NoResult /\ trace = <<>>

Init ==
    \/ \E cls \in {"pairwise", "centroid"}, d \in ScoringDicts, k \in TopkRange :
          InitAs(AfterInit(cls, DictSource(d), None, k, None),
                 [model |-> DictSource(d), model_name |-> None])
    \/ \E k \in TopkRange :
          InitAs(AfterInit("jaccard", None, None, k, None), [model |-> None, model_name |-> None])

Next ==
    \/ calls = 0 /\ kind = "pairwise" /\ \E t \in TopicLists : ScorePairwise(TopicsOutput(t))
    \/ calls = 0 /\ kind = "centroid" /\ \E t \in TopicLists : ScoreCentroid(TopicsOutput(t))
    \/ calls = 0 /\ kind = "jaccard" /\ \E t \in TopicLists : ScoreJaccard(TopicsOutput(t))

Spec == Init /\ [][Next]_vars

(***************************************************************************)
(* SpecWeighted: one score call on a constructed weighted scorer.          *)
(***************************************************************************)
InitWeighted ==
    \E d \in ScoringDicts, i2w \in Id2Words :
        InitAs(AfterInit("weighted", DictSource(d), None, default_topk, i2w),
               [model |-> DictSource(d), model_name |-> None])

NextWeighted ==
    calls = 0 /\ kind = "weighted" /\ \E b \in Betas : ScoreWeighted(BetaOutput(b))

SpecWeighted == InitWeighted /\ [][NextWeighted]_vars

(***************************************************************************)
(* SpecLife: the life of one instance, from before its construction, with  *)
(* any model and model_name a caller may pass, through repeated score      *)
(* calls.                                                                  *)
(***************************************************************************)
LifeArgs ==
    {<<m, None>> : m \in {KVSource(d) : d \in ScoringDicts} \cup {DictSource(d) : d \in Dicts} \cup {OtherSource}}
    \cup {<<None, n>> : n \in {None} \cup {Str(x) : x \in CatalogNames}}
    \cup {<<DictSource(d), Str("no-such-model")>> : d \in ScoringDicts}
LifeTopks == {1, MaxWords}
LifeId2Words == Id2Words
LifeTopics == SeqsOf(SeqsOf(Words, 1, 1), 0, 2)
LifeBetas == SeqsOf(SeqsOf({1}, 1, 2), 0, 2)

InitLife ==
    /\ kind = "none" /\ topk = 0 /\ id2word = None /\ wv = NoTable
    /\ ctorExc = "none" /\ catalogCalls = 0
    /\ source = [model |-> None, model_name |-> None]
    /\ calls = 0 /\ input = NoInput /\ result = NoResult /\ trace = <<>>

NewPairwise == \E a \in LifeArgs, k \in LifeTopks : Construct("pairwise", a[1], a[2], k, None)
NewCentroid == \E a \in LifeArgs, k \in LifeTopks : Construct("centroid", a[1], a[2], k, None)
NewWeighted == \E a \in LifeArgs, i2w \in LifeId2Words : Construct("weighted", a[1], a[2], default_topk, i2w)
NewJaccard == \E k \in LifeTopks : Construct("jaccard", None, None, k, None)

NextLife ==
    \/ NewPairwise
    \/ NewCentroid
    \/ NewWeighted
    \/ NewJaccard
    \/ calls < MaxCalls /\ kind = "pairwise" /\ \E t \in LifeTopics : ScorePairwise(TopicsOutput(t))
    \/ calls < MaxCalls /\ kind = "centroid" /\ \E t \in LifeTopics : ScoreCentroid(TopicsOutput(t))
    \/ calls < MaxCalls /\ kind = "weighted" /\ \E b \in LifeBetas : ScoreWeighted(BetaOutput(b))
    \/ calls < MaxCalls /\ kind = "jaccard" /\ \E t \in LifeTopics : ScoreJaccard(TopicsOutput(t))

SpecLife == InitLife /\ [][NextLife]_vars

(***************************************************************************)
(* Properties.                                                             *)
(***************************************************************************)
Scored(cls) == kind = cls /\ calls > 0
beta == input["topic-word-distribution"]
\* T: the topics (or distribution rows) the last call was given
NumTopics == IF kind = "weighted" THEN Len(beta) ELSE Len(input.topics)
NumPairs == (NumTopics * (NumTopics - 1)) \div 2
Permute(seq, pi) == [n \in 1..Len(seq) |-> seq[pi[n]]]
\* The outcome of score of the instance's class on another model_output.
OutcomeOf(cls, mo) ==
    IF cls = "pairwise" THEN PairwiseScore(wv, topk, mo).result
    ELSE IF cls = "centroid" THEN CentroidScore(wv, topk, mo).result
    ELSE JaccardScore(topk, mo).result

\* The weighted scorer's documented input: every word of id2word is in the
\* vocabulary, every row has len(id2word) weights, not all of them 0.
WeightedInputOk ==
    /\ \A id \in DOMAIN id2word : InVocab(wv, id2word[id])
    /\ \A r \in 1..NumTopics :
          Len(beta[r]) = Cardinality(DOMAIN id2word) /\ SumSeq(beta[r]) > 0

\* C1: the weighted scorer, given T >= 2 rows and an id2word whose words are
\* all in the vocabulary, returns the sum of the pair values divided by a
\* pair counter equal to T*(T-1)/2.
C1_ReturnsMeanOverPairCount ==
    (Scored("weighted") /\ NumTopics >= 2 /\ WeightedInputOk)
    => /\ Len(trace) = NumPairs
       /\ result = MeanOf(SumAll(Values(trace)), NumPairs)

\* C2: in the weighted scorer the pair value of rows (i, j) is computed
\* between the centroid of row i and the centroid of row j.
C2_SecondCentroidFromRowJ ==
    (Scored("weighted") /\ WeightedInputOk)
    => \A p \in 1..Len(trace) :
          /\ trace[p].centroid1 = WeightedCentroid(wv, id2word, beta[trace[p].i])
          /\ trace[p].centroid2 = WeightedCentroid(wv, id2word, beta[trace[p].j])

\* C3: every pairwise scorer called with fewer than 2 topics fails with
\* NoTopicPairsError, and with no other outcome.
C3_FewerThanTwoTopicsFails ==
    (calls > 0 /\ NumTopics < 2) => result = Raise("NoTopicPairsError")

\* C4 as claimed: the pairwise and centroid scorers raise the too-few-words
\* error, before any pair is scored, whenever topk exceeds the length of any
\* topic supplied, at any position.
C4_AnyShortTopicRaises ==
    ((Scored("pairwise") \/ Scored("centroid"))
     /\ \E n \in 1..NumTopics : topk > Len(input.topics[n]))
    => result = Raise(WordsLessThanTopk) /\ trace = <<>>

\* C4 as amended: they raise it, before any pair is scored, exactly when
\* topics is non-empty and topk exceeds the length of the first topic.
C4_FirstShortTopicRaises ==
    (Scored("pairwise") \/ Scored("centroid"))
    => /\ (NumTopics >= 1 /\ topk > Len(input.topics[1]))
             <=> result = Raise(WordsLessThanTopk)
       /\ result = Raise(WordsLessThanTopk) => trace = <<>>

C4_Witness ==
    /\ Scored("centroid") /\ NumTopics = 3
    /\ topk > Len(input.topics[1]) /\ topk <= Len(input.topics[2])
    /\ result = Raise(WordsLessThanTopk)

\* C5: the Jaccard scorer returns the mean over all T*(T-1)/2 pairs of
\* |SA & SB| / (|SA| + |SB| - |SA & SB|), SA and SB the sets of the first topk
\* words (stated where every such denominator is positive).
SetJaccard(l1, l2) ==
    LET SA == SetOf(Take(l1, topk))
        SB == SetOf(Take(l2, topk))
    IN [n |-> Cardinality(SA \cap SB),
        d |-> Cardinality(SA) + Cardinality(SB) - Cardinality(SA \cap SB)]
C5_SetBasedJaccardMean ==
    LET combos == combinations(NumTopics)
        sj == [p \in 1..Len(combos) |-> SetJaccard(input.topics[combos[p][1]], input.topics[combos[p][2]])]
        total == RatSum([p \in 1..Len(combos) |-> Rat(sj[p].n, sj[p].d)])
    IN (Scored("jaccard") /\ NumTopics >= 2 /\ \A p \in 1..Len(combos) : sj[p].d > 0)
       => result = Rat(total.n, total.d * NumPairs)

\* C6: no score call of the pairwise or centroid scorer returns NaN, and on
\* an input with a topic none of whose first topk words is in the vocabulary
\* (which leaves both scorers a zero divisor) both resolve it the same way:
\* both raise, or both skip the pair and return a number.  Stated for the
\* documented inputs: at least 2 topics, each of at least topk >= 1 words.
NoKnownWord(list) == InVocabWords(wv, topk, list) = <<>>
TopicsOk == topk >= 1 /\ \A n \in 1..NumTopics : Len(input.topics[n]) >= topk
C6_NoNaNOnePolicy ==
    ((Scored("pairwise") \/ Scored("centroid")) /\ NumTopics >= 2 /\ TopicsOk)
    => /\ result.k # "nan"
       /\ (\E n \in 1..NumTopics : NoKnownWord(input.topics[n]))
             => (IsRaise(PairwiseScore(wv, topk, input).result)
                    <=> IsRaise(CentroidScore(wv, topk, input).result))

LengthsAgree ==
    \/ \A n \in 1..NumTopics : topk <= Len(input.topics[n])
    \/ \A n \in 1..NumTopics : topk > Len(input.topics[n])
C8_ResolvedOnceAtConstruction ==
    [][/\ catalogCalls' <= 1
       /\ kind # "none" => (wv' = wv /\ catalogCalls' = catalogCalls)]_vars

C8_Witness ==
    /\ Scored("centroid") /\ calls = MaxCalls /\ catalogCalls = 1
    /\ IsValue(result)

\* C9: resolving a dict validates every value: if any value is not a
\* 1-dimensional numeric array, or lengths differ, construction fails and no
\* table is held; otherwise the table's vocabulary is the keys in encounter
\* order, index i holding the i-th value.  Stated for a non-empty dict.
IsVector(v) == v.type = "ndarray" /\ Len(v.shape) = 1 /\ v.numeric
C9_EveryValueValidated ==
    (kind # "none" /\ source.model.type = "dict" /\ source.model.items # <<>>)
    => LET items == source.model.items
       IN IF \E n \in 1..Len(items) : ~IsVector(items[n][2]) \/ items[n][2].shape # items[1][2].shape
          THEN kind = "failed" /\ wv = NoTable
          ELSE /\ kind # "failed"
               /\ DOMAIN wv.key_to_index = {items[n][1] : n \in 1..Len(items)}
               /\ \A n \in 1..Len(items) :
                     /\ wv.key_to_index[items[n][1]] = n - 1
                     /\ wv.vectors[n] = items[n][2]

\* C10 as claimed: with at least 2 topics and any topk the Jaccard scorer
\* returns a value in [0, 1], every pair having 0 <= intersection <= union
\* and union > 0.
InUnit(r) == IsValue(r) /\ RatLeq(Rat(0, 1), r) /\ RatLeq(r, Rat(1, 1))
JaccardPairsFine ==
    /\ Len(trace) = NumPairs
    /\ \A p \in 1..Len(trace) :
          0 <= trace[p].intersection /\ trace[p].intersection <= trace[p].union /\ trace[p].union > 0
C10_JaccardInUnitInterval ==
    (Scored("jaccard") /\ NumTopics >= 2) => (InUnit(result) /\ JaccardPairsFine)

\* C10 as amended: so it is when at most one topic has an empty top-k slice
\* (in particular when topk >= 1 and no topic is empty).
C10_JaccardInUnitIntervalNonEmpty ==
    (/\ Scored("jaccard") /\ NumTopics >= 2
     /\ Cardinality({n \in 1..NumTopics : Take(input.topics[n], topk) = <<>>}) <= 1)
    => (InUnit(result) /\ JaccardPairsFine)

C10_Witness ==
    /\ Scored("jaccard") /\ NumTopics = 3 /\ topk = 2
    /\ input.topics = << <<"a", "a">>, <<"a", "b">>, <<>> >>
    /\ trace[1].intersection = 1 /\ trace[1].union = 3
    /\ result = Rat(1, 9)

====
